---- MODULE Spec2Model ----
(***************************************************************************)
(* Two independent programs of simple-http-todolist.                       *)
(*                                                                         *)
(*  - the Task Service (src/web-api.go): a gin engine with two GET routes  *)
(*    serving a greeting and the package-level task list.  SpecService.    *)
(*  - the User Seeder/Reporter (the Go program in src/unnamed/part_000):   *)
(*    connect, migrate, insert three users, query, print, serialize.       *)
(*    SpecSeeder.                                                          *)
(*                                                                         *)
(* The two programs share nothing; each specification leaves the other     *)
(* program's variables at their initial values.                            *)
(***************************************************************************)
EXTENDS Integers, Sequences, FiniteSets, TLC

VARIABLES
    taskItems,   \* web-api.go: the package-level slice taskItems
    conns,       \* web-api.go: one entry per connection slot of the server
    served,      \* web-api.go: the responses written so far, in order
    pc,          \* seeder: position of main
    hasTable,    \* seeder: the store has a users table
    hasPK,       \* seeder: the users table enforces the primary key on id
    table,       \* seeder: rows of the users table, in the store's order
    initTable,   \* seeder: the rows the store held when the run started
    users,       \* seeder: the slice main holds (nil, or the rows fetched)
    k,           \* seeder: number of iterations of main's range loop done
    userJSON,    \* seeder: the bytes json.Marshal returned
    stdout,      \* seeder: the lines printed so far in this run
    storeOps,    \* seeder: the operations this run sent to the store
    run          \* seeder: number of runs of the program started so far

serviceVars == <<taskItems, conns, served>>
seederVars == <<pc, hasTable, hasPK, table, initTable, users, k, userJSON,
                stdout, storeOps, run>>
vars == <<taskItems, conns, served, pc, hasTable, hasPK, table, initTable,
          users, k, userJSON, stdout, storeOps, run>>

-----------------------------------------------------------------------------
(* Bounds *)

MaxInFlight == 2     \* requests the server handles at the same time
MaxRequests == 3     \* requests received in one run of the model
MaxRuns == 2         \* runs of the Seeder/Reporter against the same store

-----------------------------------------------------------------------------
(* Task Service: src/web-api.go *)

shortGolang == "Watch Go crash course"
fullGolang == "Watch Nana's Golang Full Course"
rewardDessert == "Reward myself with a donut"

StatusOK == 200
StatusMovedPermanently == 301
StatusTemporaryRedirect == 307
StatusNotFound == 404

Methods == {"GET", "POST"}
Paths == {"/", "/show-tasks", "/show-tasks/", "//", "/unknown"}

\* The engine main builds: gin.Default() and the two router.GET calls.
\* gin.Default() keeps the engine's defaults: RedirectTrailingSlash on,
\* RedirectFixedPath off, HandleMethodNotAllowed off.
MainRoutes ==
    { [method |-> "GET", path |-> "/", handler |-> "helloUser"],
      [method |-> "GET", path |-> "/show-tasks", handler |-> "showTask"] }

RedirectTrailingSlash == TRUE

\* Dispatch with the routes registered for every method (router.Any).
MutDispatchAnyMethod(method, path) ==
    IF \E r \in MainRoutes : r.path = path
    THEN (CHOOSE r \in MainRoutes : r.path = path).handler
    ELSE IF RedirectTrailingSlash
            /\ \E r \in MainRoutes : r.method = method /\ path = r.path \o "/"
    THEN "redirectTrailingSlash"
    ELSE "notFound"

\* The handler the engine picks for a request: the registered handler on an
\* exact match of method and path; else, in the tree of the request's method,
\* a redirect when the path is a registered path plus one trailing slash;
\* else the default not-found handler.
Dispatch(method, path) ==
    IF \E r \in MainRoutes : r.method = method /\ r.path = path
    THEN (CHOOSE r \in MainRoutes : r.method = method /\ r.path = path).handler
    ELSE IF RedirectTrailingSlash
            /\ \E r \in MainRoutes : r.method = method /\ path = r.path \o "/"
    THEN "redirectTrailingSlash"
    ELSE "notFound"

Idle == [phase |-> "idle"]

Slots == 1..MaxInFlight

InFlight == {i \in Slots : conns[i].phase # "idle"}

\* The server accepts a request on a free connection slot.
Accept(i, method, path) ==
    /\ conns[i].phase = "idle"
    /\ Len(served) + Cardinality(InFlight) < MaxRequests
    /\ conns' = [conns EXCEPT ![i] =
                    [phase |-> "accepted", method |-> method, path |-> path]]
    /\ UNCHANGED <<taskItems, served>>
    /\ UNCHANGED seederVars

\* The engine routes the request to a handler.
Route(i) ==
    /\ conns[i].phase = "accepted"
    /\ conns' = [conns EXCEPT ![i].phase =
                    Dispatch(conns[i].method, conns[i].path)]
    /\ UNCHANGED <<taskItems, served>>
    /\ UNCHANGED seederVars

Response(i, status, body) ==
    [method |-> conns[i].method, path |-> conns[i].path,
     status |-> status, body |-> body]

\* showTask answering with taskItems[1:].
MutShowTaskBody(items) == [key |-> "task", value |-> Tail(items)]

\* gin.H{"task": taskItems}
ShowTaskBody(items) == [key |-> "task", value |-> items]

\* helloUser with a shortened greeting.
MutHelloUserBody == [key |-> "message", value |-> "Hello user."]

\* gin.H{"message": "Hello user. Welcome to our Todolist App!"}
HelloUserBody ==
    [key |-> "message", value |-> "Hello user. Welcome to our Todolist App!"]

showTask(i) ==
    /\ conns[i].phase = "showTask"
    /\ served' = Append(served, Response(i, StatusOK, ShowTaskBody(taskItems)))
    /\ conns' = [conns EXCEPT ![i] = Idle]
    /\ UNCHANGED taskItems
    /\ UNCHANGED seederVars

helloUser(i) ==
    /\ conns[i].phase = "helloUser"
    /\ served' = Append(served, Response(i, StatusOK, HelloUserBody))
    /\ conns' = [conns EXCEPT ![i] = Idle]
    /\ UNCHANGED taskItems
    /\ UNCHANGED seederVars

\* The engine's redirect for a path with a trailing slash: 301 for GET,
\* 307 for the other methods, Location the path without the slash.
redirectTrailingSlash(i) ==
    /\ conns[i].phase = "redirectTrailingSlash"
    /\ served' = Append(served,
          Response(i,
                   IF conns[i].method = "GET" THEN StatusMovedPermanently
                                              ELSE StatusTemporaryRedirect,
                   [key |-> "Location",
                    value |-> (CHOOSE r \in MainRoutes :
                                  conns[i].path = r.path \o "/").path]))
    /\ conns' = [conns EXCEPT ![i] = Idle]
    /\ UNCHANGED taskItems
    /\ UNCHANGED seederVars

\* The engine's default answer when no route matches.
notFound(i) ==
    /\ conns[i].phase = "notFound"
    /\ served' = Append(served,
          Response(i, StatusNotFound,
                   [key |-> "text", value |-> "404 page not found"]))
    /\ conns' = [conns EXCEPT ![i] = Idle]
    /\ UNCHANGED taskItems
    /\ UNCHANGED seederVars

ServiceInit ==
    /\ taskItems = <<shortGolang, fullGolang, rewardDessert>>
    /\ conns = [i \in Slots |-> Idle]
    /\ served = <<>>


ServiceNext ==
    \/ \E i \in Slots, method \in Methods, path \in Paths :
           Accept(i, method, path)
    \/ \E i \in Slots : Route(i)
    \/ \E i \in Slots : helloUser(i)
    \/ \E i \in Slots : showTask(i)
    \/ \E i \in Slots : redirectTrailingSlash(i)
    \/ \E i \in Slots : notFound(i)

-----------------------------------------------------------------------------
(* User Seeder/Reporter: the Go program in src/unnamed/part_000 *)

\* type User struct { ID uint; Name string; Email string }
User(id, name, email) == [ID |-> id, Name |-> name, Email |-> email]

\* The literal of CreateDummyUsers.
dummyUsers ==
    << User(1, "Alice Johnson", "alice@example.com"),
       User(2, "Bob Smith", "bob@example.com"),
       User(3, "Charlie Brown", "charlie@example.com") >>

\* The slice value main and GetAllUsers hold: Go's nil slice, or rows.
NilSlice == [nil |-> TRUE, rows |-> <<>>]
Slice(rows) == [nil |-> FALSE, rows |-> rows]

(* fmt's %d and encoding/json's number text of a uint: decimal digits. *)
DigitChar(d) == SubSeq("0123456789", d + 1, d + 1)

RECURSIVE Itoa(_)
Itoa(n) == IF n < 10 THEN DigitChar(n)
           ELSE Itoa(n \div 10) \o DigitChar(n % 10)

\* Display with the name and the email passed in the other order.
MutDisplayLineSwapped(u) ==
    "User: ID=" \o Itoa(u.ID) \o ", Name=" \o u.Email \o ", Email=" \o u.Name

\* User.Display: fmt.Printf("User: ID=%d, Name=%s, Email=%s\n", ...)
DisplayLine(u) ==
    "User: ID=" \o Itoa(u.ID) \o ", Name=" \o u.Name \o ", Email=" \o u.Email

(* encoding/json, as json.Marshal(users) uses it on []User: the struct tags *)
(* name the keys, the fields are written in declaration order, strings are *)
(* quoted with the escapes of the encoder (HTML escaping on), and a nil     *)
(* slice is written as null.                                              *)
EscapeChar(c) ==
    CASE c = "\"" -> "\\\""
      [] c = "\\" -> "\\\\"
      [] c = "<" -> "\\u003c"
      [] c = ">" -> "\\u003e"
      [] c = "&" -> "\\u0026"
      [] OTHER -> c

RECURSIVE EscapeString(_)
EscapeString(str) ==
    IF str = "" THEN "" ELSE EscapeChar(Head(str)) \o EscapeString(Tail(str))

MarshalString(str) == "\"" \o EscapeString(str) \o "\""

\* The json tags of User: `json:"id"`, `json:"name"`, `json:"email"`.
TagID == "id"
TagName == "name"
TagEmail == "email"

\* The encoder for a User whose Email field carries the tag `json:"-"`.
MutMarshalUserNoEmail(u) ==
    "{" \o MarshalString(TagID) \o ":" \o Itoa(u.ID)
        \o "," \o MarshalString(TagName) \o ":" \o MarshalString(u.Name)
        \o "}"

MarshalUser(u) ==
    "{" \o MarshalString(TagID) \o ":" \o Itoa(u.ID)
        \o "," \o MarshalString(TagName) \o ":" \o MarshalString(u.Name)
        \o "," \o MarshalString(TagEmail) \o ":" \o MarshalString(u.Email)
        \o "}"

RECURSIVE MarshalRows(_)
MarshalRows(rows) ==
    IF rows = <<>> THEN ""
    ELSE IF Len(rows) = 1 THEN MarshalUser(rows[1])
    ELSE MarshalUser(rows[1]) \o "," \o MarshalRows(Tail(rows))

\* json.Marshal(users)
Marshal(slice) ==
    IF slice.nil THEN "null" ELSE "[" \o MarshalRows(slice.rows) \o "]"

(* Decoding the bytes back into a []User with the same struct tags.  Each   *)
(* parser returns whether it matched, the value and the unread rest.       *)
Fail == [ok |-> FALSE]
Got(val, rest) == [ok |-> TRUE, val |-> val, rest |-> rest]

HasPrefix(str, prefix) ==
    Len(str) >= Len(prefix) /\ SubSeq(str, 1, Len(prefix)) = prefix

Drop(str, n) == SubSeq(str, n + 1, Len(str))

IsDigit(c) == \E d \in 0..9 : c = DigitChar(d)
DigitVal(c) == CHOOSE d \in 0..9 : c = DigitChar(d)

RECURSIVE ScanUint(_, _)
ScanUint(str, acc) ==
    IF str # "" /\ IsDigit(Head(str))
    THEN ScanUint(Tail(str), 10 * acc + DigitVal(Head(str)))
    ELSE Got(acc, str)

ParseUint(str) ==
    IF str # "" /\ IsDigit(Head(str)) THEN ScanUint(str, 0) ELSE Fail

\* The body of a string literal, after the opening quote.
RECURSIVE ScanString(_, _)
ScanString(str, acc) ==
    IF str = "" THEN Fail
    ELSE IF Head(str) = "\"" THEN Got(acc, Tail(str))
    ELSE IF Head(str) = "\\"
    THEN IF HasPrefix(str, "\\\"") THEN ScanString(Drop(str, 2), acc \o "\"")
         ELSE IF HasPrefix(str, "\\\\") THEN ScanString(Drop(str, 2), acc \o "\\")
         ELSE IF HasPrefix(str, "\\u003c") THEN ScanString(Drop(str, 6), acc \o "<")
         ELSE IF HasPrefix(str, "\\u003e") THEN ScanString(Drop(str, 6), acc \o ">")
         ELSE IF HasPrefix(str, "\\u0026") THEN ScanString(Drop(str, 6), acc \o "&")
         ELSE Fail
    ELSE ScanString(Tail(str), acc \o Head(str))

ParseString(str) ==
    IF HasPrefix(str, "\"") THEN ScanString(Tail(str), "") ELSE Fail

\* One "key":value member stored into the User u by the key's tag; a key
\* that matches no tag is skipped.
ParseMember(str, u) ==
    LET key == ParseString(str) IN
    IF ~key.ok \/ ~HasPrefix(key.rest, ":") THEN Fail
    ELSE LET after == Tail(key.rest)
             num == ParseUint(after)
             txt == ParseString(after)
         IN  IF key.val = TagID
             THEN IF num.ok THEN Got([u EXCEPT !.ID = num.val], num.rest)
                  ELSE Fail
             ELSE IF key.val = TagName
             THEN IF txt.ok THEN Got([u EXCEPT !.Name = txt.val], txt.rest)
                  ELSE Fail
             ELSE IF key.val = TagEmail
             THEN IF txt.ok THEN Got([u EXCEPT !.Email = txt.val], txt.rest)
                  ELSE Fail
             ELSE IF num.ok THEN Got(u, num.rest)
             ELSE IF txt.ok THEN Got(u, txt.rest)
             ELSE Fail

RECURSIVE ParseMembers(_, _)
ParseMembers(str, u) ==
    LET m == ParseMember(str, u) IN
    IF ~m.ok THEN Fail
    ELSE IF HasPrefix(m.rest, ",") THEN ParseMembers(Tail(m.rest), m.val)
    ELSE IF HasPrefix(m.rest, "}") THEN Got(m.val, Tail(m.rest))
    ELSE Fail

\* An object decoded into a zero User.
ParseUser(str) ==
    IF HasPrefix(str, "{}") THEN Got(User(0, "", ""), Drop(str, 2))
    ELSE IF HasPrefix(str, "{") THEN ParseMembers(Tail(str), User(0, "", ""))
    ELSE Fail

RECURSIVE ParseRows(_, _)
ParseRows(str, acc) ==
    LET u == ParseUser(str) IN
    IF ~u.ok THEN Fail
    ELSE IF HasPrefix(u.rest, ",") THEN ParseRows(Tail(u.rest), Append(acc, u.val))
    ELSE IF HasPrefix(u.rest, "]") THEN Got(Append(acc, u.val), Tail(u.rest))
    ELSE Fail

\* json.Unmarshal(bytes, &out) with var out []User: the decoded slice, or
\* the error outcome.
Unmarshal(str) ==
    IF str = "null" THEN Got(NilSlice, "")
    ELSE IF str = "[]" THEN Got(Slice(<<>>), "")
    ELSE IF HasPrefix(str, "[")
    THEN LET r == ParseRows(Tail(str), <<>>) IN
         IF r.ok /\ r.rest = "" THEN Got(Slice(r.val), "") ELSE Fail
    ELSE Fail

(* The relational store.  The users table is a sequence in the order the   *)
(* store returns rows to SELECT * FROM users; an INSERT adds its rows at    *)
(* the end, in the order of the batch.                                     *)

\* Rows of another origin the store may hold before the first run.
OldBob == User(2, "Old Bob", "old@example.com")
Dave == User(7, "Dave \"D\" <Jr>", "d&d\\x@example.com")

Ids(rows) == {rows[j].ID : j \in 1..Len(rows)}

\* The states of the store before the first run: no users table, or a
\* table with or without the primary key holding rows of another origin.
StoreInits ==
    {[hasTable |-> FALSE, hasPK |-> FALSE, table |-> <<>>]}
    \cup [hasTable : {TRUE}, hasPK : BOOLEAN,
          table : {<<>>, <<OldBob>>, <<Dave>>, <<Dave, OldBob>>}]

\* An insert into a table created without the primary key of the gorm tag.
MutInsertAcceptedNoKey(rows, batch) == hasTable

\* INSERT INTO users (...) VALUES (...),(...),(...): one statement, so all
\* rows or none.  It needs the table, and under the primary key no id of
\* the batch may be in the table already.
InsertAccepted(rows, batch) ==
    /\ hasTable
    /\ hasPK => Ids(rows) \cap Ids(batch) = {}

StoreOp(op, ok, rows) == [op |-> op, ok |-> ok, rows |-> rows]

SeederInit ==
    /\ pc = "open"
    /\ run = 1
    /\ \E st \in StoreInits :
          /\ hasTable = st.hasTable
          /\ hasPK = st.hasPK
          /\ table = st.table
          /\ initTable = st.table
    /\ users = NilSlice
    /\ k = 0
    /\ userJSON = ""
    /\ stdout = <<>>
    /\ storeOps = <<>>

\* main with the error of gorm.Open dropped, as the later calls drop theirs.
MutAfterOpenIgnored(ok) == "migrate"

\* main: if err != nil { panic("Failed to connect to database") }
AfterOpen(ok) == IF ok THEN "migrate" ELSE "panicked"

\* main: gorm.Open, then the check of its error.
Open ==
    /\ pc = "open"
    /\ \E ok \in BOOLEAN :
          /\ storeOps' = Append(storeOps, StoreOp("open", ok, <<>>))
          /\ pc' = AfterOpen(ok)
    /\ UNCHANGED <<hasTable, hasPK, table, initTable, users, k, userJSON,
                   stdout, run>>
    /\ UNCHANGED serviceVars

\* main: db.AutoMigrate(&User{}), its error dropped.  It creates the table
\* with the primary key of the gorm tag when there is none, and leaves the
\* rows and the key of a table that exists alone.
AutoMigrate ==
    /\ pc = "migrate"
    /\ \E ok \in BOOLEAN :
          /\ storeOps' = Append(storeOps, StoreOp("migrate", ok, <<>>))
          /\ hasTable' = (hasTable \/ ok)
          /\ hasPK' = IF ok /\ ~hasTable THEN TRUE ELSE hasPK
    /\ pc' = "create"
    /\ UNCHANGED <<table, initTable, users, k, userJSON, stdout, run>>
    /\ UNCHANGED serviceVars

\* UserServiceImpl.CreateDummyUsers: s.DB.Create(&dummyUsers), whose result
\* is not looked at, then Println.
CreateDummyUsers ==
    /\ pc = "create"
    /\ \E fault \in BOOLEAN :
          LET accepted == ~fault /\ InsertAccepted(table, dummyUsers) IN
          /\ storeOps' = Append(storeOps, StoreOp("insert", accepted, dummyUsers))
          /\ table' = IF accepted THEN table \o dummyUsers ELSE table
    /\ stdout' = Append(stdout, "Dummy users created successfully.")
    /\ pc' = "find"
    /\ UNCHANGED <<hasTable, hasPK, initTable, users, k, userJSON, run>>
    /\ UNCHANGED serviceVars

\* What s.DB.Find(&users) leaves in users: the rows in the store's order,
\* or the nil slice of the declaration when the query failed.
Found(ok, rows) == IF ok THEN Slice(rows) ELSE NilSlice

\* UserServiceImpl.GetAllUsers, and main's users := ...
GetAllUsers ==
    /\ pc = "find"
    /\ \E fault \in BOOLEAN :
          LET ok == ~fault /\ hasTable IN
          /\ storeOps' = Append(storeOps, StoreOp("query", ok, <<>>))
          /\ users' = Found(ok, table)
    /\ pc' = "printAll"
    /\ UNCHANGED <<hasTable, hasPK, table, initTable, k, userJSON, stdout, run>>
    /\ UNCHANGED serviceVars

\* main: fmt.Println("All Users:")
PrintAllUsers ==
    /\ pc = "printAll"
    /\ stdout' = Append(stdout, "All Users:")
    /\ k' = 0
    /\ pc' = "range"
    /\ UNCHANGED <<hasTable, hasPK, table, initTable, users, userJSON,
                   storeOps, run>>
    /\ UNCHANGED serviceVars

\* main: one iteration of for _, user := range users { user.Display() }
Display ==
    /\ pc = "range"
    /\ k < Len(users.rows)
    /\ stdout' = Append(stdout, DisplayLine(users.rows[k + 1]))
    /\ k' = k + 1
    /\ UNCHANGED <<pc, hasTable, hasPK, table, initTable, users, userJSON,
                   storeOps, run>>
    /\ UNCHANGED serviceVars

\* main: userJSON, _ := json.Marshal(users), once the loop is over.
MarshalUsers ==
    /\ pc = "range"
    /\ k = Len(users.rows)
    /\ userJSON' = Marshal(users)
    /\ pc' = "printJSON"
    /\ UNCHANGED <<hasTable, hasPK, table, initTable, users, k, stdout,
                   storeOps, run>>
    /\ UNCHANGED serviceVars

\* main: fmt.Println("Users JSON:", string(userJSON)), and main returns.
PrintUsersJSON ==
    /\ pc = "printJSON"
    /\ stdout' = Append(stdout, "Users JSON:" \o " " \o userJSON)
    /\ pc' = "done"
    /\ UNCHANGED <<hasTable, hasPK, table, initTable, users, k, userJSON,
                   storeOps, run>>
    /\ UNCHANGED serviceVars

\* The program is started again against the store as the last run left it.
Rerun ==
    /\ pc \in {"done", "panicked"}
    /\ run < MaxRuns
    /\ run' = run + 1
    /\ pc' = "open"
    /\ initTable' = table
    /\ users' = NilSlice
    /\ k' = 0
    /\ userJSON' = ""
    /\ stdout' = <<>>
    /\ storeOps' = <<>>
    /\ UNCHANGED <<hasTable, hasPK, table>>
    /\ UNCHANGED serviceVars

SeederNext ==
    \/ Open
    \/ AutoMigrate
    \/ CreateDummyUsers
    \/ GetAllUsers
    \/ PrintAllUsers
    \/ Display
    \/ MarshalUsers
    \/ PrintUsersJSON
    \/ Rerun

\* The seeder's variables while only the Task Service runs.
SeederIdle ==
    /\ pc = "off"
    /\ run = 0
    /\ hasTable = FALSE
    /\ hasPK = FALSE
    /\ table = <<>>
    /\ initTable = <<>>
    /\ users = NilSlice
    /\ k = 0
    /\ userJSON = ""
    /\ stdout = <<>>
    /\ storeOps = <<>>

-----------------------------------------------------------------------------
(* Specifications *)

InitService == ServiceInit /\ SeederIdle

InitSeeder == SeederInit /\ ServiceInit

\* The Task Service serving requests.
SpecService == InitService /\ [][ServiceNext]_vars

\* The Seeder/Reporter run, and run again, against one store.
SpecSeeder == InitSeeder /\ [][SeederNext]_vars

-----------------------------------------------------------------------------
(* Task Service: properties, checked under SpecService *)

Answers(method, path) ==
    {j \in 1..Len(served) : served[j].method = method /\ served[j].path = path}

Pending(method, path) ==
    {i \in Slots : /\ conns[i].phase # "idle"
                   /\ conns[i].method = method
                   /\ conns[i].path = path}

\* C1: whatever was served before and whatever else is in flight, every
\* GET /show-tasks is routed to showTask and answered with status 200 and
\* the body {"task": [the three literal strings, in the literal order]};
\* and the task list itself is never changed by any handler.
C1_ShowTasksFixed ==
    /\ taskItems = <<"Watch Go crash course",
                     "Watch Nana's Golang Full Course",
                     "Reward myself with a donut">>
    /\ \A i \in Pending("GET", "/show-tasks") :
           conns[i].phase \in {"accepted", "showTask"}
    /\ \A j \in Answers("GET", "/show-tasks") :
           /\ served[j].status = 200
           /\ served[j].body.key = "task"
           /\ served[j].body.value = <<"Watch Go crash course",
                                       "Watch Nana's Golang Full Course",
                                       "Reward myself with a donut">>

\* C1 witness: a GET /show-tasks answered after an earlier one was answered,
\* while another request is still being handled.
C1_Witness ==
    /\ Cardinality(Answers("GET", "/show-tasks")) >= 2
    /\ InFlight # {}

\* C2: every GET / is routed to helloUser and answered with status 200 and
\* the body whose only key "message" carries the literal greeting, however
\* many times it is called and whatever else was or is being served; the
\* request never ends in an error answer.
C2_HelloFixed ==
    /\ \A i \in Pending("GET", "/") : conns[i].phase \in {"accepted", "helloUser"}
    /\ \A j \in Answers("GET", "/") :
           /\ served[j].status = 200
           /\ served[j].body =
                 [key |-> "message",
                  value |-> "Hello user. Welcome to our Todolist App!"]

\* C2 witness: GET / answered twice, with a request of another kind
\* answered in between.
C2_Witness ==
    \E a, b, c \in 1..Len(served) :
        /\ a < b /\ b < c
        /\ a \in Answers("GET", "/") /\ c \in Answers("GET", "/")
        /\ b \notin Answers("GET", "/")

Defined(method, path) ==
    method = "GET" /\ path \in {"/", "/show-tasks"}

\* C9 as stated: every request outside GET / and GET /show-tasks is
\* answered with the not-found status.
C9_OtherRequestsNotFound ==
    \A j \in 1..Len(served) :
        ~Defined(served[j].method, served[j].path) => served[j].status = 404

\* C9 amended: status 200, the greeting and the task list are answered to
\* GET / and GET /show-tasks only.  Every other request is answered with the
\* not-found status, except a GET of a defined path followed by one more
\* slash (GET //, GET /show-tasks/), which is answered with a 301 redirect
\* to the defined path.
C9_OtherRequestsNotFoundOrRedirected ==
    \A j \in 1..Len(served) :
        ~Defined(served[j].method, served[j].path) =>
            /\ served[j].status # 200
            /\ served[j].body.key \notin {"message", "task"}
            /\ \/ served[j].status = 404
               \/ /\ served[j].method = "GET"
                  /\ served[j].status = 301
                  /\ served[j].body.key = "Location"
                  /\ \/ served[j].path = "//" /\ served[j].body.value = "/"
                     \/ /\ served[j].path = "/show-tasks/"
                        /\ served[j].body.value = "/show-tasks"
            /\ served[j].path \in {"//", "/show-tasks/"} /\ served[j].method = "GET"
                  => served[j].status = 301

\* C9 witness: GET /unknown and POST / were answered 404 and GET /show-tasks/
\* was answered with the redirect.
C9_Witness ==
    /\ \E j \in Answers("GET", "/unknown") : served[j].status = 404
    /\ \E j \in Answers("POST", "/") : served[j].status = 404
    /\ \E j \in Answers("GET", "/show-tasks/") : served[j].status = 301

-----------------------------------------------------------------------------
(* Seeder/Reporter: properties, checked under SpecSeeder *)

Ops(op) == {j \in 1..Len(storeOps) : storeOps[j].op = op}

OkOps(op) == {j \in Ops(op) : storeOps[j].ok}

Connected == OkOps("open") # {}

PastCreate == pc \in {"find", "printAll", "range", "printJSON", "done"}

Count(rows, id) == Cardinality({j \in 1..Len(rows) : rows[j].ID = id})

Printed(line) == \E j \in 1..Len(stdout) : stdout[j] = line

SeedIds == {1, 2, 3}

\* C3: when the connection cannot be established the run ends at once: the
\* failed open is the only operation the store ever sees (no migration, no
\* insert, no query), the store is left as it was and nothing is printed.
C3_ConnectFailureStopsRun ==
    (Ops("open") # {} /\ ~Connected) =>
        /\ pc = "panicked"
        /\ Len(storeOps) = 1
        /\ Ops("migrate") \cup Ops("insert") \cup Ops("query") = {}
        /\ stdout = <<>>
        /\ table = initTable
        /\ users = NilSlice
        /\ userJSON = ""

\* C3 witness: a second run, against a store the first run seeded, fails to
\* connect.
C3_Witness ==
    /\ pc = "panicked"
    /\ run = 2
    /\ Len(table) >= 3

\* C4 as stated: a failed batch insert is fatal: the run terminates, prints
\* no "Dummy users created successfully." and sends no query.
C4_FailedInsertIsFatal ==
    (Ops("insert") # {} /\ OkOps("insert") = {}) =>
        /\ pc = "panicked"
        /\ ~Printed("Dummy users created successfully.")
        /\ Ops("query") = {}

\* C5 as stated: a run that completes against an initially empty or absent
\* users table leaves exactly the three seed rows in it.
C5_FreshTableHoldsSeeds ==
    (pc = "done" /\ initTable = <<>>) =>
        /\ Len(table) = 3
        /\ {table[j] : j \in 1..Len(table)} =
              { [ID |-> 1, Name |-> "Alice Johnson", Email |-> "alice@example.com"],
                [ID |-> 2, Name |-> "Bob Smith", Email |-> "bob@example.com"],
                [ID |-> 3, Name |-> "Charlie Brown", Email |-> "charlie@example.com"] }

\* Every connected run sends exactly one insert, of the same three rows,
\* whatever the table holds; a run that did not connect sends none.
InsertAlwaysAttempted ==
    /\ PastCreate =>
          /\ Connected
          /\ Cardinality(Ops("insert")) = 1
          /\ \A j \in Ops("insert") :
                storeOps[j].rows =
                   << [ID |-> 1, Name |-> "Alice Johnson", Email |-> "alice@example.com"],
                      [ID |-> 2, Name |-> "Bob Smith", Email |-> "bob@example.com"],
                      [ID |-> 3, Name |-> "Charlie Brown", Email |-> "charlie@example.com"] >>
    /\ ~PastCreate => Ops("insert") = {}

\* The rows the store held when the run started are still there, unchanged
\* and in place: the run only ever adds rows.
NoUpdateNoDelete ==
    /\ Len(table) >= Len(initTable)
    /\ SubSeq(table, 1, Len(initTable)) = initTable

\* Under the primary key a store that holds the three ids rejects the
\* insert: the table is as before, one row per id.
ConflictUnderKey ==
    (PastCreate /\ hasPK /\ SeedIds \subseteq Ids(initTable)) =>
        /\ OkOps("insert") = {}
        /\ table = initTable
        /\ \A id \in SeedIds : Count(table, id) = 1

\* C6 as stated: no existence check, no update or delete; against a store
\* that holds the three ids the insert conflicts under the primary key and
\* duplicates the rows without it.
C6_RerunConflictsOrDuplicates ==
    /\ InsertAlwaysAttempted
    /\ NoUpdateNoDelete
    /\ ConflictUnderKey
    /\ (PastCreate /\ ~hasPK /\ SeedIds \subseteq Ids(initTable)) =>
          \A id \in SeedIds : Count(table, id) = Count(initTable, id) + 1

\* C6 amended: as stated, except that without the primary key the rows are
\* duplicated when the store executes the insert; an insert the store fails
\* for another reason leaves the table as it was.
C6_RerunConflictsOrDuplicatesIfExecuted ==
    /\ InsertAlwaysAttempted
    /\ NoUpdateNoDelete
    /\ ConflictUnderKey
    /\ (PastCreate /\ ~hasPK /\ SeedIds \subseteq Ids(initTable)) =>
          IF OkOps("insert") # {}
          THEN /\ \A id \in SeedIds : Count(table, id) = Count(initTable, id) + 1
               /\ Len(table) = Len(initTable) + 3
          ELSE table = initTable

\* C6 witness: a second run against a store without the primary key that
\* holds the three ids (and a row of another origin) has duplicated them.
C6_Witness ==
    /\ run = 2
    /\ pc = "done"
    /\ ~hasPK
    /\ SeedIds \subseteq Ids(initTable)
    /\ 7 \in Ids(initTable)
    /\ \A id \in SeedIds : Count(table, id) = 2
    /\ Count(table, 7) = 1

StepsInOrder == <<"open", "migrate", "insert", "query">>

\* Each step starts only after the one before it has finished: the store
\* sees open, migrate, insert, query in that order, each once, and the
\* position of main fixes how many operations were sent and lines printed.
Sequential ==
    /\ Len(storeOps) <= 4
    /\ \A j \in 1..Len(storeOps) : storeOps[j].op = StepsInOrder[j]
    /\ pc = "open" => Len(storeOps) = 0 /\ Len(stdout) = 0
    /\ pc \in {"migrate", "panicked"} => Len(storeOps) = 1 /\ Len(stdout) = 0
    /\ pc = "create" => Len(storeOps) = 2 /\ Len(stdout) = 0
    /\ pc = "find" => Len(storeOps) = 3 /\ Len(stdout) = 1
    /\ pc = "printAll" => Len(storeOps) = 4 /\ Len(stdout) = 1
    /\ pc = "range" => Len(storeOps) = 4 /\ Len(stdout) = 2 + k
    /\ pc = "printJSON" => Len(storeOps) = 4 /\ Len(stdout) = 2 + Len(users.rows)
    /\ pc = "done" => Len(storeOps) = 4 /\ Len(stdout) = 3 + Len(users.rows)

\* C7 as stated: a completed run has printed the success line, "All Users:",
\* three "User: ..." lines and one "Users JSON:" line with a JSON array, in
\* that order and nothing else; the steps ran one after the other.
C7_OutputHasThreeUserLines ==
    /\ Sequential
    /\ pc = "done" =>
          /\ Len(stdout) = 6
          /\ stdout[1] = "Dummy users created successfully."
          /\ stdout[2] = "All Users:"
          /\ \A j \in 3..5 : HasPrefix(stdout[j], "User: ID=")
          /\ HasPrefix(stdout[6], "Users JSON: [")

\* C7 amended: a completed run has printed the success line, "All Users:",
\* one "User: ID=<id>, Name=<name>, Email=<email>" line per row the query
\* returned, in the returned order (three lines when the table was empty
\* before and both the insert and the query were executed), and last one
\* "Users JSON:" line carrying the JSON encoding of those rows: an array, or
\* null when the query failed; nothing else; the steps ran one after the
\* other.
C7_OutputHasOneLinePerRow ==
    /\ Sequential
    /\ pc = "done" =>
          LET n == Len(users.rows) IN
          /\ Len(stdout) = n + 3
          /\ stdout[1] = "Dummy users created successfully."
          /\ stdout[2] = "All Users:"
          /\ \A j \in 1..n :
                stdout[2 + j] =
                    "User: ID=" \o ToString(users.rows[j].ID)
                    \o ", Name=" \o users.rows[j].Name
                    \o ", Email=" \o users.rows[j].Email
          /\ HasPrefix(stdout[n + 3], "Users JSON: ")
          /\ IF OkOps("query") # {}
             THEN /\ HasPrefix(stdout[n + 3], "Users JSON: [")
                  /\ users.rows = table
             ELSE stdout[n + 3] = "Users JSON: null" /\ n = 0
          /\ (initTable = <<>> /\ OkOps("insert") # {} /\ OkOps("query") # {})
                => n = 3

\* C7 witness: a completed run against a table that held one other row has
\* printed four "User: ..." lines between "All Users:" and the JSON line.
C7_Witness ==
    /\ pc = "done"
    /\ Len(stdout) = 7
    /\ stdout[3] = "User: ID=7, Name=Dave \"D\" <Jr>, Email=d&d\\x@example.com"
    /\ stdout[4] = "User: ID=1, Name=Alice Johnson, Email=alice@example.com"

C10_ReportIsTheTableAtQueryTime ==
    /\ pc \in {"printAll", "range", "printJSON", "done"} =>
          /\ Connected
          /\ Cardinality(Ops("query")) = 1
          /\ \A q \in Ops("query") : \A j \in Ops("insert") : j < q
    /\ pc = "done" =>
          LET lines == SelectSeq(stdout, LAMBDA l : HasPrefix(l, "User: ID=")) IN
          /\ Len(lines) = Len(users.rows)
          /\ \A j \in 1..Len(lines) : lines[j] = DisplayLine(users.rows[j])
          /\ Unmarshal(userJSON).ok
          /\ Unmarshal(userJSON).val.rows = users.rows
          /\ Len(lines) = Len(table)
          /\ \A j \in 1..Len(users.rows) :
                \E t \in 1..Len(table) : table[t] = users.rows[j]

====
